---- MODULE Spec2Model ----
(***************************************************************************)
(* Model of the memberlist KV lifecycle wrapper                            *)
(* (vendor/github.com/grafana/dskit/kv/memberlist/kv_init_service.go):     *)
(* KVInitService with GetMemberlistKV / getKV / running / stopping, the    *)
(* sync.Once guard it uses, and the collaborators it drives (the KV        *)
(* service, the FailureWatcher), plus the value store's merge protocol.    *)
(***************************************************************************)
EXTENDS Integers, Sequences, FiniteSets, TLC

\* ---------------------------------------------------------------- bounds
NumCallers == 2      \* goroutines calling GetMemberlistKV
NumStops == 2        \* invocations of stopping()

Callers == 1..NumCallers
Stoppers == 1..NumStops
KVIds == 1..NumCallers   \* room for one KV per caller (a broken guard may build several)

\* ---------------------------------------------------------------- values
NoKV == 0                          \* nil *KV
ErrNone == <<"none", 0>>           \* no value yet (call not returned)
ErrNil == <<"nil", 0>>             \* nil error
StartErr(id) == <<"startErr", id>> \* error returned by kv.StartAsync
FailErr(id) == <<"failed", id>>    \* failure case of KV id, as relayed by the watcher

\* Value store (data model): keys, replicas of the store, codec identifiers,
\* and the descriptor standing for "no descriptor for this key".
MaxVal == 2          \* codec payloads range over 0..MaxVal
MaxVer == 1          \* versions of the drawn descriptors range over 0..MaxVer
Keys == {"x"}
Replicas == {1, 2}
CodecIDs == {1, 2}
Absent == [value |-> 0, version |-> 0, codecID |-> 0]
Descriptors == [value : 0..MaxVal, version : 0..MaxVer, codecID : CodecIDs]
NumCas == 3          \* concurrent callers of cas
MaxRetry == 3        \* the cas retry budget is drawn from 1..MaxRetry
MaxRemote == 2       \* remote updates arriving while cas callers run
CasCallers == 1..NumCas
CasKey == "x"        \* the key the cas callers write

Terminal == {"Terminated", "Failed"}
Live == {"Starting", "Running", "Stopping"}

VARIABLES
  pc,          \* pc[c]: position of caller c inside GetMemberlistKV
  localKV,     \* localKV[c]: the closure's local `kv` (line 59)
  retKV,       \* retKV[c]: *KV returned to caller c
  retErr,      \* retErr[c]: error returned to caller c
  onceDone,    \* sync.Once: done flag
  onceMu,      \* sync.Once: mutex holder (0 = unlocked)
  kvsKV,       \* kvs.kv (atomic.Value): NoKV or a KV id
  kvsErr,      \* kvs.err
  kvCount,     \* number of NewKV calls so far (ids 1..kvCount exist)
  kvState,     \* kvState[id]: service state of KV id ("none" before NewKV)
  watched,     \* KV ids registered with the FailureWatcher
  startCalls,  \* number of kv.StartAsync calls so far
  wch,         \* watcher channel: KV ids whose failure listener is blocked sending
  offered,     \* number of failure values ever offered on the watcher channel
  consumed,    \* number of failure values running() has received
  ctxDone,     \* the service context passed to running() is cancelled
  runPc,       \* position of running(): "none", "select", "returned"
  runResult,   \* value returned by running()
  stPc,        \* stPc[s]: position of stopping() invocation s
  stKV,        \* stKV[s]: local `kv` of stopping() invocation s (line 89)
  stRes,       \* stRes[s]: value returned by stopping() invocation s
  stopEff,     \* number of StopAsync calls that changed a KV's state
  stopAsked,   \* KV ids on which stopping() has called StopAsync
  failedFirst, \* KV ids that failed while no stop signal had been issued
  rstore,      \* rstore[r][k]: descriptor replica r of the value store holds for key k
  inbox,       \* inbox[r]: remote updates <<key, descriptor>> still to reach replica r
  casPc,       \* casPc[c]: position of cas caller c
  casRead,     \* casRead[c]: descriptor caller c read for its current attempt
  casTries,    \* casTries[c]: attempts caller c has started
  casBudget,   \* attempts a cas call may make before it fails with WriteConflict
  remoteLeft,  \* remote updates that may still arrive at the cas callers' store
  weErr,       \* the error handed to WriteError
  wePc,        \* position of the WriteError call
  weOut,       \* status codes WriteError has written to the response, in order
  psIn,        \* the stream handed to ParseStream
  psPc,        \* position of the ParseStream call
  psOut,       \* ParseStream's parser choice, callback count and return value
  msgLog,      \* IDs of the sent and received messages the KV keeps
  resp         \* the last response ServeHTTP wrote

vars == <<pc, localKV, retKV, retErr, onceDone, onceMu, kvsKV, kvsErr, kvCount,
          kvState, watched, startCalls, wch, offered, consumed, ctxDone, runPc,
          runResult, stPc, stKV, stRes, stopEff, stopAsked, failedFirst,
          rstore, inbox, casPc, casRead, casTries, casBudget, remoteLeft,
          weErr, wePc, weOut, psIn, psPc, psOut, msgLog, resp>>

callerVars == <<pc, localKV, retKV, retErr>>
onceVars == <<onceDone, onceMu>>
kvsVars == <<kvsKV, kvsErr>>
storeVars == <<kvCount, kvState, watched, startCalls>>
watchVars == <<wch, offered, consumed>>
runVars == <<ctxDone, runPc, runResult>>
stopVars == <<stPc, stKV, stRes, stopEff, stopAsked>>
mergeVars == <<rstore, inbox>>
casVars == <<casPc, casRead, casTries, casBudget, remoteLeft>>
errVars == <<weErr, wePc, weOut>>
parseVars == <<psIn, psPc, psOut>>
httpVars == <<msgLog, resp>>
restVars == <<errVars, parseVars, httpVars>>
sideVars == <<casVars, restVars>>

\* NewKVInitService: nothing initialized, watcher created, service not started.
WrapperInit ==
  /\ pc = [c \in Callers |-> "idle"]
  /\ localKV = [c \in Callers |-> NoKV]
  /\ retKV = [c \in Callers |-> NoKV]
  /\ retErr = [c \in Callers |-> ErrNone]
  /\ onceDone = 0
  /\ onceMu = 0
  /\ kvsKV = NoKV
  /\ kvsErr = ErrNil
  /\ kvCount = 0
  /\ kvState = [id \in KVIds |-> "none"]
  /\ watched = {}
  /\ startCalls = 0
  /\ wch = {}
  /\ offered = 0
  /\ consumed = 0
  /\ ctxDone = FALSE
  /\ runPc = "none"
  /\ runResult = ErrNone
  /\ stPc = [s \in Stoppers |-> "idle"]
  /\ stKV = [s \in Stoppers |-> NoKV]
  /\ stRes = [s \in Stoppers |-> ErrNone]
  /\ stopEff = 0
  /\ stopAsked = {}
  /\ failedFirst = {}

\* No cas call is under way and no remote update is expected.
CasIdle ==
  /\ casPc = [c \in CasCallers |-> "idle"]
  /\ casRead = [c \in CasCallers |-> Absent]
  /\ casTries = [c \in CasCallers |-> 0]
  /\ casBudget = 1
  /\ remoteLeft = 0

\* No WriteError call, no ParseStream call and no HTTP request is under way.
NoError == [multi |-> FALSE, is |-> {}, promCanceled |-> FALSE, queryErr |-> FALSE,
            rpc |-> "none", http |-> 0, elems |-> <<>>]
NoRequest == [parseErr |-> FALSE, downloadKey |-> "none", viewKey |-> "none",
              viewMsg |-> "none", deleteMessages |-> "none", json |-> FALSE]
NoResponse == [req |-> NoRequest, status |-> 0, body |-> "none", location |-> "none"]
NoParse == [parser |-> "none", calls |-> 0, ret |-> "none", rest |-> <<>>]
RestIdle ==
  /\ weErr = NoError
  /\ wePc = "idle"
  /\ weOut = <<>>
  /\ psIn = [bytes |-> <<>>, fails |-> FALSE]
  /\ psPc = "idle"
  /\ psOut = NoParse
  /\ msgLog = {}
  /\ resp = NoResponse

SideIdle == CasIdle /\ RestIdle

\* The wrapper as constructed; the value store's replicas are empty and idle.
Init ==
  /\ WrapperInit
  /\ SideIdle
  /\ rstore = [r \in Replicas |-> [k \in Keys |-> Absent]]
  /\ inbox = [r \in Replicas |-> <<>>]

\* getKV: kvs.kv.Load(), nil when nothing was stored.
getKV == kvsKV

\* ------------------------------------------------- collaborators (dskit services)
\* Service.StopAsync: a New service terminates at once, a starting or running one
\* is told to stop, and a stopping or terminal one is left alone.
StopAsyncState(st) ==
  CASE st = "New" -> "Terminated"
    [] st \in {"Starting", "Running"} -> "Stopping"
    [] OTHER -> st

\* The KV's background loop finishes starting.
KVStarted(id) ==
  /\ kvState[id] = "Starting"
  /\ kvState' = [kvState EXCEPT ![id] = "Running"]
  /\ UNCHANGED <<callerVars, onceVars, kvsVars, kvCount, watched, startCalls,
                 watchVars, runVars, stopVars, failedFirst>>
  /\ UNCHANGED <<mergeVars, sideVars>>

\* The KV fails; the FailureWatcher's listener (if registered) then offers the
\* failure on the watcher's unbuffered channel and blocks until it is received.
KVFail(id) ==
  /\ kvState[id] \in Live
  /\ kvState' = [kvState EXCEPT ![id] = "Failed"]
  /\ IF id \in watched
       THEN wch' = wch \cup {id} /\ offered' = offered + 1
       ELSE UNCHANGED <<wch, offered>>
  /\ failedFirst' = IF ctxDone THEN failedFirst ELSE failedFirst \cup {id}
  /\ UNCHANGED <<callerVars, onceVars, kvsVars, kvCount, watched, startCalls,
                 consumed, runVars, stopVars>>
  /\ UNCHANGED <<mergeVars, sideVars>>

\* A KV that was told to stop reaches Terminated.
KVTerminate(id) ==
  /\ kvState[id] = "Stopping"
  /\ kvState' = [kvState EXCEPT ![id] = "Terminated"]
  /\ UNCHANGED <<callerVars, onceVars, kvsVars, kvCount, watched, startCalls,
                 watchVars, runVars, stopVars, failedFirst>>
  /\ UNCHANGED <<mergeVars, sideVars>>

\* ------------------------------------------------------------ GetMemberlistKV
\* Mutant: a failed initialization is retried by the next caller.
InitNeededRetry == onceDone = 0 \/ kvsErr # ErrNil

\* sync.Once: the function still has to run.
InitNeeded == onceDone = 0

\* Mutant: no Once at all, every call runs the initialization.
CallNoOnce(c) ==
  /\ pc[c] = "idle"
  /\ pc' = [pc EXCEPT ![c] = "newkv"]
  /\ UNCHANGED <<localKV, retKV, retErr, onceVars, kvsVars, storeVars, watchVars,
                 runVars, stopVars, failedFirst>>
  /\ UNCHANGED <<mergeVars, sideVars>>

\* kvs.init.Do, fast path: a completed Once returns at once, otherwise take the
\* slow path (lock the Once's mutex).
Call(c) ==
  /\ pc[c] = "idle"
  /\ pc' = [pc EXCEPT ![c] = IF InitNeeded THEN "lock" ELSE "ret"]
  /\ UNCHANGED <<localKV, retKV, retErr, onceVars, kvsVars, storeVars, watchVars,
                 runVars, stopVars, failedFirst>>
  /\ UNCHANGED <<mergeVars, sideVars>>

\* Mutant: the slow path enters without waiting for the Once's mutex.
OnceLockNoMutex(c) ==
  /\ pc[c] = "lock"
  /\ onceMu' = c
  /\ pc' = [pc EXCEPT ![c] = IF InitNeeded THEN "newkv" ELSE "unlock"]
  /\ UNCHANGED <<localKV, retKV, retErr, onceDone, kvsVars, storeVars, watchVars,
                 runVars, stopVars, failedFirst>>
  /\ UNCHANGED <<mergeVars, sideVars>>

\* kvs.init.Do, slow path: wait for the mutex, then check done again under it.
OnceLock(c) ==
  /\ pc[c] = "lock"
  /\ onceMu = 0
  /\ onceMu' = c
  /\ pc' = [pc EXCEPT ![c] = IF InitNeeded THEN "newkv" ELSE "unlock"]
  /\ UNCHANGED <<localKV, retKV, retErr, onceDone, kvsVars, storeVars, watchVars,
                 runVars, stopVars, failedFirst>>
  /\ UNCHANGED <<mergeVars, sideVars>>

\* kv := NewKV(...)
NewKV(c) ==
  /\ pc[c] = "newkv"
  /\ kvCount < NumCallers
  /\ kvCount' = kvCount + 1
  /\ localKV' = [localKV EXCEPT ![c] = kvCount + 1]
  /\ kvState' = [kvState EXCEPT ![kvCount + 1] = "New"]
  /\ pc' = [pc EXCEPT ![c] = "watch"]
  /\ UNCHANGED <<retKV, retErr, onceVars, kvsVars, watched, startCalls, watchVars,
                 runVars, stopVars, failedFirst>>
  /\ UNCHANGED <<mergeVars, sideVars>>

\* Mutant: the KV is started without being registered with the watcher.
WatchServiceNoop(c) ==
  /\ pc[c] = "watch"
  /\ pc' = [pc EXCEPT ![c] = "start"]
  /\ UNCHANGED <<localKV, retKV, retErr, onceVars, kvsVars, kvCount, kvState,
                 watched, startCalls, watchVars, runVars, stopVars, failedFirst>>
  /\ UNCHANGED <<mergeVars, sideVars>>

\* kvs.watcher.WatchService(kv)
WatchService(c) ==
  /\ pc[c] = "watch"
  /\ watched' = watched \cup {localKV[c]}
  /\ pc' = [pc EXCEPT ![c] = "start"]
  /\ UNCHANGED <<localKV, retKV, retErr, onceVars, kvsVars, kvCount, kvState,
                 startCalls, watchVars, runVars, stopVars, failedFirst>>
  /\ UNCHANGED <<mergeVars, sideVars>>

\* kvs.err = kv.StartAsync(ctx): either the KV starts (nil) or the start is
\* refused with an error and the KV stays as it was.
StartAsync(c) ==
  /\ pc[c] = "start"
  /\ startCalls' = startCalls + 1
  /\ \/ /\ kvState' = [kvState EXCEPT ![localKV[c]] = "Starting"]
        /\ kvsErr' = ErrNil
     \/ /\ kvsErr' = StartErr(localKV[c])
        /\ UNCHANGED kvState
  /\ pc' = [pc EXCEPT ![c] = "store"]
  /\ UNCHANGED <<localKV, retKV, retErr, onceVars, kvsKV, kvCount, watched,
                 watchVars, runVars, stopVars, failedFirst>>
  /\ UNCHANGED <<mergeVars, sideVars>>

\* kvs.kv.Store(kv)
StoreKV(c) ==
  /\ pc[c] = "store"
  /\ kvsKV' = localKV[c]
  /\ pc' = [pc EXCEPT ![c] = "unlock"]
  /\ UNCHANGED <<localKV, retKV, retErr, onceVars, kvsErr, storeVars, watchVars,
                 runVars, stopVars, failedFirst>>
  /\ UNCHANGED <<mergeVars, sideVars>>

\* kvs.init.Do returns: done is set and the mutex released.
OnceUnlock(c) ==
  /\ pc[c] = "unlock"
  /\ onceDone' = 1
  /\ onceMu' = 0
  /\ pc' = [pc EXCEPT ![c] = "ret"]
  /\ UNCHANGED <<localKV, retKV, retErr, kvsVars, storeVars, watchVars, runVars,
                 stopVars, failedFirst>>
  /\ UNCHANGED <<mergeVars, sideVars>>

\* Mutant: the recorded error is dropped (return kvs.getKV(), nil).
ReturnDropsErr(c) ==
  /\ pc[c] = "ret"
  /\ retKV' = [retKV EXCEPT ![c] = getKV]
  /\ retErr' = [retErr EXCEPT ![c] = ErrNil]
  /\ pc' = [pc EXCEPT ![c] = "done"]
  /\ UNCHANGED <<localKV, onceVars, kvsVars, storeVars, watchVars, runVars,
                 stopVars, failedFirst>>
  /\ UNCHANGED <<mergeVars, sideVars>>

\* return kvs.getKV(), kvs.err
Return(c) ==
  /\ pc[c] = "ret"
  /\ retKV' = [retKV EXCEPT ![c] = getKV]
  /\ retErr' = [retErr EXCEPT ![c] = kvsErr]
  /\ pc' = [pc EXCEPT ![c] = "done"]
  /\ UNCHANGED <<localKV, onceVars, kvsVars, storeVars, watchVars, runVars,
                 stopVars, failedFirst>>
  /\ UNCHANGED <<mergeVars, sideVars>>

\* -------------------------------------------------------------------- running
\* The supervisor starts the wrapper's service: running(ctx) enters its select.
RunStart ==
  /\ runPc = "none"
  /\ runPc' = "select"
  /\ UNCHANGED <<callerVars, onceVars, kvsVars, storeVars, watchVars, ctxDone,
                 runResult, stopVars, failedFirst>>
  /\ UNCHANGED <<mergeVars, sideVars>>

\* The stop signal: the service context is cancelled (cancelling again is a no-op).
StopSignal ==
  /\ ctxDone' = TRUE
  /\ UNCHANGED <<callerVars, onceVars, kvsVars, storeVars, watchVars, runPc,
                 runResult, stopVars, failedFirst>>
  /\ UNCHANGED <<mergeVars, sideVars>>

\* Mutant: the select has a default branch returning nil without a stop signal.
RunCtxDoneDefault ==
  /\ runPc = "select"
  /\ runPc' = "returned"
  /\ runResult' = ErrNil
  /\ UNCHANGED <<callerVars, onceVars, kvsVars, storeVars, watchVars, ctxDone,
                 stopVars, failedFirst>>
  /\ UNCHANGED <<mergeVars, sideVars>>

\* Mutant: on the stop signal running() returns the initialization error.
RunCtxDoneErr ==
  /\ runPc = "select"
  /\ ctxDone
  /\ runPc' = "returned"
  /\ runResult' = kvsErr
  /\ UNCHANGED <<callerVars, onceVars, kvsVars, storeVars, watchVars, ctxDone,
                 stopVars, failedFirst>>
  /\ UNCHANGED <<mergeVars, sideVars>>

\* case <-ctx.Done(): return nil
RunCtxDone ==
  /\ runPc = "select"
  /\ ctxDone
  /\ runPc' = "returned"
  /\ runResult' = ErrNil
  /\ UNCHANGED <<callerVars, onceVars, kvsVars, storeVars, watchVars, ctxDone,
                 stopVars, failedFirst>>
  /\ UNCHANGED <<mergeVars, sideVars>>

\* Mutant: the received failure is dropped and running() keeps waiting.
RunRecvIgnores ==
  /\ runPc = "select"
  /\ \E id \in wch : wch' = wch \ {id}
  /\ consumed' = consumed + 1
  /\ UNCHANGED <<callerVars, onceVars, kvsVars, storeVars, offered, runVars,
                 stopVars, failedFirst>>
  /\ UNCHANGED <<mergeVars, sideVars>>

\* case err := <-kvs.watcher.Chan(): return err
RunRecv ==
  /\ runPc = "select"
  /\ \E id \in wch :
       /\ wch' = wch \ {id}
       /\ runResult' = FailErr(id)
  /\ consumed' = consumed + 1
  /\ runPc' = "returned"
  /\ UNCHANGED <<callerVars, onceVars, kvsVars, storeVars, offered, ctxDone,
                 stopVars, failedFirst>>
  /\ UNCHANGED <<mergeVars, sideVars>>

\* ------------------------------------------------------------------- stopping
\* Mutant: stopping() obtains the store through GetMemberlistKV, which
\* initializes and starts it when nothing was initialized.
StopCallInit(s) ==
  /\ stPc[s] = "idle"
  /\ IF getKV = NoKV /\ kvCount = 0
       THEN /\ kvCount' = 1
            /\ kvState' = [kvState EXCEPT ![1] = "Starting"]
            /\ watched' = watched \cup {1}
            /\ startCalls' = startCalls + 1
            /\ kvsKV' = 1
            /\ onceDone' = 1
            /\ stKV' = [stKV EXCEPT ![s] = 1]
       ELSE /\ stKV' = [stKV EXCEPT ![s] = getKV]
            /\ UNCHANGED <<kvCount, kvState, watched, startCalls, kvsKV, onceDone>>
  /\ IF stKV'[s] = NoKV
       THEN /\ stRes' = [stRes EXCEPT ![s] = ErrNil]
            /\ stPc' = [stPc EXCEPT ![s] = "done"]
       ELSE /\ stPc' = [stPc EXCEPT ![s] = "stopAsync"]
            /\ UNCHANGED stRes
  /\ UNCHANGED <<callerVars, onceMu, kvsErr, watchVars, runVars,
                 stopEff, stopAsked, failedFirst>>
  /\ UNCHANGED <<mergeVars, sideVars>>

\* Mutant: an uninitialized store is reported as an error.
StopCallErrOnNil(s) ==
  /\ stPc[s] = "idle"
  /\ stKV' = [stKV EXCEPT ![s] = getKV]
  /\ IF getKV = NoKV
       THEN /\ stRes' = [stRes EXCEPT ![s] = <<"notInitialized", 0>>]
            /\ stPc' = [stPc EXCEPT ![s] = "done"]
       ELSE /\ stPc' = [stPc EXCEPT ![s] = "stopAsync"]
            /\ UNCHANGED stRes
  /\ UNCHANGED <<callerVars, onceVars, kvsVars, storeVars, watchVars, runVars,
                 stopEff, stopAsked, failedFirst>>
  /\ UNCHANGED <<mergeVars, sideVars>>

\* kv := kvs.getKV(); if kv == nil { return nil }
StopCall(s) ==
  /\ stPc[s] = "idle"
  /\ stKV' = [stKV EXCEPT ![s] = getKV]
  /\ IF getKV = NoKV
       THEN /\ stRes' = [stRes EXCEPT ![s] = ErrNil]
            /\ stPc' = [stPc EXCEPT ![s] = "done"]
       ELSE /\ stPc' = [stPc EXCEPT ![s] = "stopAsync"]
            /\ UNCHANGED stRes
  /\ UNCHANGED <<callerVars, onceVars, kvsVars, storeVars, watchVars, runVars,
                 stopEff, stopAsked, failedFirst>>
  /\ UNCHANGED <<mergeVars, sideVars>>

\* services.StopAndAwaitTerminated, first half: kv.StopAsync()
StopKV(s) ==
  /\ stPc[s] = "stopAsync"
  /\ kvState' = [kvState EXCEPT ![stKV[s]] = StopAsyncState(kvState[stKV[s]])]
  /\ stopEff' = IF StopAsyncState(kvState[stKV[s]]) # kvState[stKV[s]]
                  THEN stopEff + 1 ELSE stopEff
  /\ stopAsked' = stopAsked \cup {stKV[s]}
  /\ stPc' = [stPc EXCEPT ![s] = "await"]
  /\ UNCHANGED <<callerVars, onceVars, kvsVars, kvCount, watched, startCalls,
                 watchVars, runVars, stKV, stRes, failedFirst>>
  /\ UNCHANGED <<mergeVars, sideVars>>

\* Mutant: the store is asked to stop but not awaited.
AwaitKVNoWait(s) ==
  /\ stPc[s] = "await"
  /\ stRes' = [stRes EXCEPT ![s] = ErrNil]
  /\ stPc' = [stPc EXCEPT ![s] = "done"]
  /\ UNCHANGED <<callerVars, onceVars, kvsVars, storeVars, watchVars, runVars,
                 stKV, stopEff, stopAsked, failedFirst>>
  /\ UNCHANGED <<mergeVars, sideVars>>

\* services.StopAndAwaitTerminated, second half: kv.AwaitTerminated(ctx) with a
\* context that is never cancelled; nil for Terminated, the failure for Failed.
AwaitKV(s) ==
  /\ stPc[s] = "await"
  /\ kvState[stKV[s]] \in Terminal
  /\ stRes' = [stRes EXCEPT ![s] =
                 IF kvState[stKV[s]] = "Terminated" THEN ErrNil ELSE FailErr(stKV[s])]
  /\ stPc' = [stPc EXCEPT ![s] = "done"]
  /\ UNCHANGED <<callerVars, onceVars, kvsVars, storeVars, watchVars, runVars,
                 stKV, stopEff, stopAsked, failedFirst>>
  /\ UNCHANGED <<mergeVars, sideVars>>

\* ------------------------------------------------------------- specification
Next ==
  \/ \E c \in Callers : Call(c)
  \/ \E c \in Callers : OnceLock(c)
  \/ \E c \in Callers : NewKV(c)
  \/ \E c \in Callers : WatchService(c)
  \/ \E c \in Callers : StartAsync(c)
  \/ \E c \in Callers : StoreKV(c)
  \/ \E c \in Callers : OnceUnlock(c)
  \/ \E c \in Callers : Return(c)
  \/ \E id \in KVIds : KVStarted(id)
  \/ \E id \in KVIds : KVFail(id)
  \/ \E id \in KVIds : KVTerminate(id)
  \/ RunStart
  \/ StopSignal
  \/ RunCtxDone
  \/ RunRecv
  \/ \E s \in Stoppers : StopCall(s)
  \/ \E s \in Stoppers : StopKV(s)
  \/ \E s \in Stoppers : AwaitKV(s)

Spec == Init /\ [][Next]_vars

\* The Go scheduler runs a goroutine blocked in select once a case is ready:
\* running() takes a ready case.  The supervisor, the callers and the store's
\* failures are not forced.
FairSpec == Spec /\ WF_vars(RunRecv) /\ WF_vars(RunCtxDone)

\* The wrapper's lifecycle state as its fields show it: nothing built, the
\* Once's function under way, the published store live, stopped or failed.
WrapperState ==
  IF kvsKV = NoKV
    THEN IF \E c \in Callers : pc[c] \in {"newkv", "watch", "start", "store"}
           THEN "Initializing" ELSE "Uninitialized"
    ELSE IF kvsErr # ErrNil \/ kvState[kvsKV] = "Failed" THEN "Failed"
    ELSE IF kvState[kvsKV] = "Terminated" THEN "Stopped"
    ELSE "Running"

TypeOK ==
  /\ pc \in [Callers -> {"idle", "lock", "newkv", "watch", "start", "store",
                         "unlock", "ret", "done"}]
  /\ kvsKV \in {NoKV} \cup KVIds
  /\ kvCount \in 0..NumCallers
  /\ onceDone \in {0, 1}
  /\ onceMu \in {0} \cup Callers
  /\ runPc \in {"none", "select", "returned"}
  /\ stPc \in [Stoppers -> {"idle", "stopAsync", "await", "done"}]

\* ---------------------------------------------------------------- value store
wrapperVars == <<callerVars, onceVars, kvsVars, storeVars, watchVars, runVars,
                 stopVars, failedFirst>>

Max(a, b) == IF a >= b THEN a ELSE b
Min(a, b) == IF a <= b THEN a ELSE b

\* Codec registry: merge(local, remote) -> (result, changed).  Codec 1 is the
\* counter codec, merging by maximum; codec 2 merges by minimum.
CodecMerge(id, l, r) ==
  LET res == IF id = 1 THEN Max(l, r) ELSE Min(l, r)
  IN [result |-> res, changed |-> res # l]

\* Mutant: the incoming value replaces the local one (last writer wins).
MergeRemoteOverwrite(st, k, inc) ==
  IF st[k] = Absent THEN [st EXCEPT ![k] = inc]
  ELSE IF st[k].codecID # inc.codecID THEN st
  ELSE IF inc.value # st[k].value
    THEN [st EXCEPT ![k] = [value |-> inc.value,
                            version |-> Max(st[k].version, inc.version) + 1,
                            codecID |-> inc.codecID]]
    ELSE st

\* Mutant: a merge that reports no change still stores the result at a new version.
MergeRemoteAlwaysBump(st, k, inc) ==
  IF st[k] = Absent THEN [st EXCEPT ![k] = inc]
  ELSE IF st[k].codecID # inc.codecID THEN st
  ELSE [st EXCEPT ![k] = [value |-> CodecMerge(inc.codecID, st[k].value, inc.value).result,
                          version |-> Max(st[k].version, inc.version) + 1,
                          codecID |-> inc.codecID]]

\* Mutant: a reported change is stored at the local version plus one.
MergeRemoteLocalBump(st, k, inc) ==
  IF st[k] = Absent THEN [st EXCEPT ![k] = inc]
  ELSE IF st[k].codecID # inc.codecID THEN st
  ELSE LET m == CodecMerge(inc.codecID, st[k].value, inc.value)
       IN IF m.changed
            THEN [st EXCEPT ![k] = [value |-> m.result,
                                    version |-> st[k].version + 1,
                                    codecID |-> inc.codecID]]
            ELSE st

\* mergeRemote(key, incoming): an absent key adopts the incoming descriptor
\* verbatim; a codec mismatch discards it; otherwise the codec merges the two
\* values and a reported change is stored at max(local, incoming version) + 1.
MergeRemote(st, k, inc) ==
  IF st[k] = Absent THEN [st EXCEPT ![k] = inc]
  ELSE IF st[k].codecID # inc.codecID THEN st
  ELSE LET m == CodecMerge(inc.codecID, st[k].value, inc.value)
       IN IF m.changed
            THEN [st EXCEPT ![k] = [value |-> m.result,
                                    version |-> Max(st[k].version, inc.version) + 1,
                                    codecID |-> inc.codecID]]
            ELSE st

\* Two replicas start from the same store s0; two remote updates A and B for
\* one key, encoded with one codec, reach replica 1 as A, B and replica 2 as B, A.
MergeInit ==
  /\ WrapperInit
  /\ SideIdle
  /\ \E s0 \in [Keys -> Descriptors \cup {Absent}] :
       rstore = [r \in Replicas |-> s0]
  /\ \E k \in Keys, a \in Descriptors, b \in Descriptors :
       /\ a.codecID = b.codecID
       /\ inbox = [r \in Replicas |->
                     IF r = 1 THEN << <<k, a>>, <<k, b>> >>
                              ELSE << <<k, b>>, <<k, a>> >>]

\* Inbound gossip: the next remote update of replica r is merged into its store.
Deliver(r) ==
  /\ inbox[r] # <<>>
  /\ rstore' = [rstore EXCEPT ![r] = MergeRemote(@, Head(inbox[r])[1], Head(inbox[r])[2])]
  /\ inbox' = [inbox EXCEPT ![r] = Tail(@)]
  /\ UNCHANGED <<wrapperVars, sideVars>>

MergeNext == \E r \in Replicas : Deliver(r)

MergeSpec == MergeInit /\ [][MergeNext]_vars

\* Two replicas start from the same store s0; one remote update A reaches
\* replica 1 twice in a row and replica 2 once.
IdemInit ==
  /\ WrapperInit
  /\ SideIdle
  /\ \E s0 \in [Keys -> Descriptors \cup {Absent}] :
       rstore = [r \in Replicas |-> s0]
  /\ \E k \in Keys, a \in Descriptors :
       inbox = [r \in Replicas |->
                  IF r = 1 THEN << <<k, a>>, <<k, a>> >> ELSE << <<k, a>> >>]

IdemSpec == IdemInit /\ [][MergeNext]_vars

\* ------------------------------------------------------------------------ cas
\* The descriptor a cas attempt starts from: the stored one, or the counter
\* codec's zero value at version 0 when the key is absent.
CasBase(d) == IF d = Absent THEN [value |-> 0, version |-> 0, codecID |-> 1] ELSE d

\* cas, first half of an attempt: read the current descriptor (the caller's
\* transformation, an increment, is then applied outside the critical section).
CasRead(c) ==
  /\ casPc[c] \in {"idle", "retry"}
  /\ casRead' = [casRead EXCEPT ![c] = rstore[1][CasKey]]
  /\ casTries' = [casTries EXCEPT ![c] = @ + 1]
  /\ casPc' = [casPc EXCEPT ![c] = "write"]
  /\ UNCHANGED <<restVars, wrapperVars, mergeVars, casBudget, remoteLeft>>

\* Mutant: the result is stored without checking for an interleaved writer.
CasCommitBlind(c) ==
  /\ casPc[c] = "write"
  /\ rstore' = [rstore EXCEPT ![1][CasKey] =
                  [value |-> CasBase(casRead[c]).value + 1,
                   version |-> CasBase(casRead[c]).version + 1,
                   codecID |-> CasBase(casRead[c]).codecID]]
  /\ casPc' = [casPc EXCEPT ![c] = "done"]
  /\ UNCHANGED <<restVars, wrapperVars, inbox, casRead, casTries, casBudget, remoteLeft>>

\* Mutant: the transformed value is stored without incrementing the version.
CasCommitNoBump(c) ==
  /\ casPc[c] = "write"
  /\ rstore[1][CasKey] = casRead[c]
  /\ rstore' = [rstore EXCEPT ![1][CasKey] =
                  [value |-> CasBase(casRead[c]).value + 1,
                   version |-> CasBase(casRead[c]).version,
                   codecID |-> CasBase(casRead[c]).codecID]]
  /\ casPc' = [casPc EXCEPT ![c] = "done"]
  /\ UNCHANGED <<restVars, wrapperVars, inbox, casRead, casTries, casBudget, remoteLeft>>

\* cas, second half: no writer interleaved since the read, so the transformed
\* value is stored at the read version plus one.
CasCommit(c) ==
  /\ casPc[c] = "write"
  /\ rstore[1][CasKey] = casRead[c]
  /\ rstore' = [rstore EXCEPT ![1][CasKey] =
                  [value |-> CasBase(casRead[c]).value + 1,
                   version |-> CasBase(casRead[c]).version + 1,
                   codecID |-> CasBase(casRead[c]).codecID]]
  /\ casPc' = [casPc EXCEPT ![c] = "done"]
  /\ UNCHANGED <<restVars, wrapperVars, inbox, casRead, casTries, casBudget, remoteLeft>>

\* cas, second half: a writer interleaved and the budget allows another attempt.
CasRetry(c) ==
  /\ casPc[c] = "write"
  /\ rstore[1][CasKey] # casRead[c]
  /\ casTries[c] < casBudget
  /\ casPc' = [casPc EXCEPT ![c] = "retry"]
  /\ UNCHANGED <<restVars, wrapperVars, mergeVars, casRead, casTries, casBudget, remoteLeft>>

\* cas, second half: a writer interleaved and the budget is spent: WriteConflict.
CasFail(c) ==
  /\ casPc[c] = "write"
  /\ rstore[1][CasKey] # casRead[c]
  /\ casTries[c] >= casBudget
  /\ casPc' = [casPc EXCEPT ![c] = "failed"]
  /\ UNCHANGED <<restVars, wrapperVars, mergeVars, casRead, casTries, casBudget, remoteLeft>>

\* A remote update for the cas callers' key arrives and is merged.
RemoteUpdate ==
  /\ remoteLeft > 0
  /\ remoteLeft' = remoteLeft - 1
  /\ \E d \in Descriptors :
       rstore' = [rstore EXCEPT ![1] = MergeRemote(@, CasKey, d)]
  /\ UNCHANGED <<restVars, wrapperVars, inbox, casPc, casRead, casTries, casBudget>>

\* cas callers alone, on a key that starts at version 0 (absent, or the zero
\* value stored at version 0).
CasInit ==
  /\ WrapperInit
  /\ \E d \in {Absent, CasBase(Absent)} :
       rstore = [r \in Replicas |-> [k \in Keys |-> IF r = 1 THEN d ELSE Absent]]
  /\ inbox = [r \in Replicas |-> <<>>]
  /\ casPc = [c \in CasCallers |-> "idle"]
  /\ casRead = [c \in CasCallers |-> Absent]
  /\ casTries = [c \in CasCallers |-> 0]
  /\ casBudget \in 1..MaxRetry
  /\ RestIdle
  /\ remoteLeft = 0

CasNext ==
  \/ \E c \in CasCallers : CasRead(c)
  \/ \E c \in CasCallers : CasCommit(c)
  \/ \E c \in CasCallers : CasRetry(c)
  \/ \E c \in CasCallers : CasFail(c)

CasSpec == CasInit /\ [][CasNext]_vars

\* cas callers interleaved with remote updates, from any drawn descriptor.
StoreInit ==
  /\ WrapperInit
  /\ \E d \in Descriptors \cup {Absent} :
       rstore = [r \in Replicas |-> [k \in Keys |-> IF r = 1 THEN d ELSE Absent]]
  /\ inbox = [r \in Replicas |-> <<>>]
  /\ casPc = [c \in CasCallers |-> "idle"]
  /\ casRead = [c \in CasCallers |-> Absent]
  /\ casTries = [c \in CasCallers |-> 0]
  /\ casBudget \in 1..MaxRetry
  /\ RestIdle
  /\ remoteLeft = MaxRemote

\* Two of the cas callers run against the remote updates: one interleaved
\* writer is what a conflict needs.
StoreCallers == {c \in CasCallers : c <= 2}

StoreNext ==
  \/ \E c \in StoreCallers : CasRead(c)
  \/ \E c \in StoreCallers : CasCommit(c)
  \/ \E c \in StoreCallers : CasRetry(c)
  \/ \E c \in StoreCallers : CasFail(c)
  \/ RemoteUpdate

StoreSpec == StoreInit /\ [][StoreNext]_vars

\* ----------------------------------------------------------------- WriteError
StatusClientClosedRequest == 499
StatusGatewayTimeout == 504
StatusBadRequest == 400
StatusInternalServerError == 500
MaxElems == 2        \* longest MultiError drawn

\* Sentinel errors WriteError tests with errors.Is.
Targets == {"Canceled", "DeadlineExceeded", "ErrLimit", "ErrParse", "ErrPipeline",
            "ErrNoOrgID"}
\* HTTP codes an httpgrpc error may carry (0: the error carries no response).
CarriedCodes == {404, 503}

\* An element of a MultiError: the sentinel it is (if any) and whether it is a
\* gRPC status with code DeadlineExceeded.
ElemErrors == [is : {S \in SUBSET Targets : Cardinality(S) <= 1},
               rpcDeadline : BOOLEAN]

\* An error that is not a MultiError, by what WriteError asks of it: the
\* sentinels errors.Is finds in its chain, whether errors.As finds a
\* promql.ErrStorage wrapping context.Canceled, whether errors.As finds a
\* QueryError, its gRPC status (status.FromError), and the HTTP response it
\* carries (httpgrpc.HTTPResponseFromError; only a gRPC status carries one).
SingleErrors ==
  {e \in [multi : {FALSE}, is : SUBSET Targets, promCanceled : BOOLEAN,
          queryErr : BOOLEAN, rpc : {"none", "DeadlineExceeded", "Other"},
          http : {0} \cup CarriedCodes, elems : {<<>>}] :
     e.http # 0 => e.rpc # "none"}

\* A util.MultiError of up to MaxElems elements (possibly empty).
MultiErrors ==
  [multi : {TRUE}, is : {{}}, promCanceled : {FALSE}, queryErr : {FALSE},
   rpc : {"none"}, http : {0},
   elems : UNION {[1..n -> ElemErrors] : n \in 0..MaxElems}]

\* util.MultiError.Is: non-empty and every element is the target.
MultiIs(es, t) == Len(es) > 0 /\ \A i \in 1..Len(es) : t \in es[i].is

\* util.MultiError.IsDeadlineExceeded: non-empty and every element is
\* context.DeadlineExceeded or a gRPC DeadlineExceeded status.
MultiIsDeadlineExceeded(es) ==
  Len(es) > 0 /\ \A i \in 1..Len(es) : "DeadlineExceeded" \in es[i].is \/ es[i].rpcDeadline

\* errors.Is(err, target): a MultiError answers through its Is method.
ErrorsIs(e, t) == IF e.multi THEN MultiIs(e.elems, t) ELSE t \in e.is

\* Mutant: the switch tests the deadline before the cancellation.
WriteErrorDeadlineFirst(e) ==
  IF e.multi /\ MultiIs(e.elems, "Canceled") THEN <<StatusClientClosedRequest>>
  ELSE IF e.multi /\ MultiIsDeadlineExceeded(e.elems) THEN <<StatusGatewayTimeout>>
  ELSE IF ErrorsIs(e, "DeadlineExceeded") \/ e.rpc = "DeadlineExceeded"
    THEN <<StatusGatewayTimeout>>
  ELSE IF ErrorsIs(e, "Canceled") \/ e.promCanceled
    THEN <<StatusClientClosedRequest>>
  ELSE IF e.queryErr THEN <<StatusBadRequest>>
  ELSE IF ErrorsIs(e, "ErrLimit") \/ ErrorsIs(e, "ErrParse") \/ ErrorsIs(e, "ErrPipeline")
    THEN <<StatusBadRequest>>
  ELSE IF ErrorsIs(e, "ErrNoOrgID") THEN <<StatusBadRequest>>
  ELSE IF e.http # 0 THEN <<e.http>>
  ELSE <<StatusInternalServerError>>

\* WriteError(err, w): the status codes written to w, in order. The two
\* MultiError tests return early; the switch writes once.
WriteError(e) ==
  IF e.multi /\ MultiIs(e.elems, "Canceled") THEN <<StatusClientClosedRequest>>
  ELSE IF e.multi /\ MultiIsDeadlineExceeded(e.elems) THEN <<StatusGatewayTimeout>>
  ELSE IF ErrorsIs(e, "Canceled") \/ e.promCanceled
    THEN <<StatusClientClosedRequest>>
  ELSE IF ErrorsIs(e, "DeadlineExceeded") \/ e.rpc = "DeadlineExceeded"
    THEN <<StatusGatewayTimeout>>
  ELSE IF e.queryErr THEN <<StatusBadRequest>>
  ELSE IF ErrorsIs(e, "ErrLimit") \/ ErrorsIs(e, "ErrParse") \/ ErrorsIs(e, "ErrPipeline")
    THEN <<StatusBadRequest>>
  ELSE IF ErrorsIs(e, "ErrNoOrgID") THEN <<StatusBadRequest>>
  ELSE IF e.http # 0 THEN <<e.http>>
  ELSE <<StatusInternalServerError>>

\* A handler calls WriteError with its error.
WriteErrorCall ==
  /\ wePc = "call"
  /\ weOut' = weOut \o WriteError(weErr)
  /\ wePc' = "done"
  /\ UNCHANGED <<wrapperVars, mergeVars, casVars, weErr, parseVars, httpVars>>

ErrInit ==
  /\ WrapperInit
  /\ rstore = [r \in Replicas |-> [k \in Keys |-> Absent]]
  /\ inbox = [r \in Replicas |-> <<>>]
  /\ CasIdle
  /\ weErr \in SingleErrors \cup MultiErrors
  /\ wePc = "call"
  /\ weOut = <<>>
  /\ psIn = [bytes |-> <<>>, fails |-> FALSE]
  /\ psPc = "idle"
  /\ psOut = NoParse
  /\ msgLog = {}
  /\ resp = NoResponse

ErrNext == WriteErrorCall

ErrSpec == ErrInit /\ [][ErrNext]_vars

\* ---------------------------------------------------------------- ParseStream
ByteLT == 60         \* '<'
Byte0 == 48          \* '0'
Byte9 == 57          \* '9'
MaxLen == 2          \* longest stream drawn
\* Bytes drawn for a stream: '/', '0', '5', '9', ':', '<', 'A'.
Alphabet == {Byte0 - 1, Byte0, Byte0 + 5, Byte9, Byte9 + 1, ByteLT, ByteLT + 5}

\* Mutant: the digit test excludes '0'.
PSPeekOffByOne ==
  /\ psPc = "call"
  /\ IF psIn.fails \/ psIn.bytes = <<>>
       THEN /\ psOut' = [psOut EXCEPT !.ret = "read error"]
            /\ psPc' = "done"
       ELSE LET b == psIn.bytes[1]
            IN IF b = ByteLT
                 THEN /\ psOut' = [psOut EXCEPT !.parser = "nontransparent",
                                                !.rest = psIn.bytes]
                      /\ psPc' = "parsing"
               ELSE IF b > Byte0 /\ b <= Byte9
                 THEN /\ psOut' = [psOut EXCEPT !.parser = "octetcounting",
                                                !.rest = psIn.bytes]
                      /\ psPc' = "parsing"
               ELSE /\ psOut' = [psOut EXCEPT !.ret = "framing error"]
                    /\ psPc' = "done"
  /\ UNCHANGED <<wrapperVars, mergeVars, casVars, errVars, httpVars, psIn>>

\* buf.Peek(1) and the choice of framing from the first byte. Peek fails on a
\* reader error or an empty stream and consumes nothing.
PSPeek ==
  /\ psPc = "call"
  /\ IF psIn.fails \/ psIn.bytes = <<>>
       THEN /\ psOut' = [psOut EXCEPT !.ret = "read error"]
            /\ psPc' = "done"
       ELSE LET b == psIn.bytes[1]
            IN IF b = ByteLT
                 THEN /\ psOut' = [psOut EXCEPT !.parser = "nontransparent",
                                                !.rest = psIn.bytes]
                      /\ psPc' = "parsing"
               ELSE IF b >= Byte0 /\ b <= Byte9
                 THEN /\ psOut' = [psOut EXCEPT !.parser = "octetcounting",
                                                !.rest = psIn.bytes]
                      /\ psPc' = "parsing"
               ELSE /\ psOut' = [psOut EXCEPT !.ret = "framing error"]
                    /\ psPc' = "done"
  /\ UNCHANGED <<wrapperVars, mergeVars, casVars, errVars, httpVars, psIn>>

\* The chosen parser reads one or more bytes and hands a result (a message, or
\* an error, as it is best-effort) to the callback.
ParserResult ==
  /\ psPc = "parsing"
  /\ psOut.rest # <<>>
  /\ \E n \in 1..Len(psOut.rest) :
       psOut' = [psOut EXCEPT !.rest = SubSeq(psOut.rest, n + 1, Len(psOut.rest)),
                              !.calls = @ + 1]
  /\ UNCHANGED <<wrapperVars, mergeVars, casVars, errVars, httpVars, psIn, psPc>>

\* Parse returns (on EOF or an unrecoverable error) and ParseStream returns nil.
ParserReturn ==
  /\ psPc = "parsing"
  /\ psOut' = [psOut EXCEPT !.ret = "nil"]
  /\ psPc' = "done"
  /\ UNCHANGED <<wrapperVars, mergeVars, casVars, errVars, httpVars, psIn>>

ParseInit ==
  /\ WrapperInit
  /\ rstore = [r \in Replicas |-> [k \in Keys |-> Absent]]
  /\ inbox = [r \in Replicas |-> <<>>]
  /\ CasIdle
  /\ weErr = NoError
  /\ wePc = "idle"
  /\ weOut = <<>>
  /\ psIn \in [bytes : UNION {[1..n -> Alphabet] : n \in 0..MaxLen}, fails : BOOLEAN]
  /\ psPc = "call"
  /\ psOut = NoParse
  /\ msgLog = {}
  /\ resp = NoResponse

ParseNext == PSPeek \/ ParserResult \/ ParserReturn

ParseSpec == ParseInit /\ [][ParseNext]_vars

\* ------------------------------------------------------------------ ServeHTTP
MaxMsgs == 2         \* most messages the KV's log holds

\* strconv.Atoi on the strings drawn for viewMsg.
Atoi(str) ==
  LET digits == ("1" :> 1) @@ ("2" :> 2) @@ ("3" :> 3) @@ ("9" :> 9)
  IN IF str \in DOMAIN digits THEN [ok |-> TRUE, n |-> digits[str]]
     ELSE [ok |-> FALSE, n |-> 0]

\* A request by what ServeHTTP reads of it: whether ParseForm fails, the first
\* value of each form parameter ("none": parameter not given), and whether the
\* Accept header contains application/json.
Requests ==
  [parseErr : BOOLEAN, downloadKey : {"none", "x"}, viewKey : {"none", "x"},
   viewMsg : {"none", "abc", "1", "9"}, deleteMessages : {"none", "true", "false"},
   json : BOOLEAN]

\* The running KV sends or receives a message and keeps it in its log.
LogMessage ==
  /\ getKV # NoKV
  /\ kvState[getKV] = "Running"
  /\ Cardinality(msgLog) < MaxMsgs
  /\ msgLog' = msgLog \cup {Cardinality(msgLog) + 1}
  /\ UNCHANGED <<wrapperVars, mergeVars, casVars, errVars, parseVars, resp>>

\* Mutant: any deleteMessages parameter clears the log, whatever its value.
ServeHTTPDeleteAny(req) ==
  LET kv == getKV
      store == rstore[1]
      found(key) == key \in Keys /\ store[key] # Absent
      reply(st, b) == [req |-> req, status |-> st, body |-> b, location |-> "none"]
  IN /\ IF kv = NoKV
          THEN /\ resp' = reply(200, "This instance doesn't use memberlist.")
               /\ UNCHANGED msgLog
        ELSE IF ~req.parseErr /\ req.downloadKey # "none"
          THEN /\ resp' = IF found(req.downloadKey) THEN reply(200, "encoded value")
                          ELSE reply(404, "value not found")
               /\ UNCHANGED msgLog
        ELSE IF ~req.parseErr /\ req.viewKey # "none"
          THEN /\ resp' = IF found(req.viewKey) THEN reply(200, "value")
                          ELSE reply(404, "value not found")
               /\ UNCHANGED msgLog
        ELSE IF ~req.parseErr /\ req.viewMsg # "none"
          THEN /\ resp' = IF ~Atoi(req.viewMsg).ok THEN reply(400, "invalid syntax")
                          ELSE IF Atoi(req.viewMsg).n \in msgLog THEN reply(200, "message")
                          ELSE reply(404, "message not found")
               /\ UNCHANGED msgLog
        ELSE IF ~req.parseErr /\ req.deleteMessages # "none"
          THEN /\ msgLog' = {}
               /\ resp' = [req |-> req, status |-> 302, body |-> "",
                           location |-> "?deleteMessages=false"]
        ELSE /\ resp' = IF req.json THEN reply(200, "page as application/json")
                        ELSE reply(200, "page as text/html")
             /\ UNCHANGED msgLog
     /\ UNCHANGED <<wrapperVars, mergeVars, casVars, errVars, parseVars>>

\* ServeHTTP(w, req): the text reply without a store; otherwise, when the form
\* parses, the first of downloadKey, viewKey, viewMsg, deleteMessages=true
\* that applies; otherwise the status page.
ServeHTTP(req) ==
  LET kv == getKV
      store == rstore[1]
      found(key) == key \in Keys /\ store[key] # Absent
      reply(st, b) == [req |-> req, status |-> st, body |-> b, location |-> "none"]
  IN /\ IF kv = NoKV
          THEN /\ resp' = reply(200, "This instance doesn't use memberlist.")
               /\ UNCHANGED msgLog
        ELSE IF ~req.parseErr /\ req.downloadKey # "none"
          THEN /\ resp' = IF found(req.downloadKey) THEN reply(200, "encoded value")
                          ELSE reply(404, "value not found")
               /\ UNCHANGED msgLog
        ELSE IF ~req.parseErr /\ req.viewKey # "none"
          THEN /\ resp' = IF found(req.viewKey) THEN reply(200, "value")
                          ELSE reply(404, "value not found")
               /\ UNCHANGED msgLog
        ELSE IF ~req.parseErr /\ req.viewMsg # "none"
          THEN /\ resp' = IF ~Atoi(req.viewMsg).ok THEN reply(400, "invalid syntax")
                          ELSE IF Atoi(req.viewMsg).n \in msgLog THEN reply(200, "message")
                          ELSE reply(404, "message not found")
               /\ UNCHANGED msgLog
        ELSE IF ~req.parseErr /\ req.deleteMessages = "true"
          THEN /\ msgLog' = {}
               /\ resp' = [req |-> req, status |-> 302, body |-> "",
                           location |-> "?deleteMessages=false"]
        ELSE /\ resp' = IF req.json THEN reply(200, "page as application/json")
                        ELSE reply(200, "page as text/html")
             /\ UNCHANGED msgLog
     /\ UNCHANGED <<wrapperVars, mergeVars, casVars, errVars, parseVars>>

\* One component acquires the store while requests arrive.
HttpCallers == {c \in Callers : c = 1}

HttpInit ==
  /\ WrapperInit
  /\ \E d \in {Absent, [value |-> 1, version |-> 1, codecID |-> 1]} :
       rstore = [r \in Replicas |-> [k \in Keys |-> IF r = 1 THEN d ELSE Absent]]
  /\ inbox = [r \in Replicas |-> <<>>]
  /\ SideIdle

HttpNext ==
  \/ \E c \in HttpCallers : Call(c)
  \/ \E c \in HttpCallers : OnceLock(c)
  \/ \E c \in HttpCallers : NewKV(c)
  \/ \E c \in HttpCallers : WatchService(c)
  \/ \E c \in HttpCallers : StartAsync(c)
  \/ \E c \in HttpCallers : StoreKV(c)
  \/ \E c \in HttpCallers : OnceUnlock(c)
  \/ \E c \in HttpCallers : Return(c)
  \/ \E id \in KVIds : KVStarted(id)
  \/ LogMessage
  \/ \E req \in Requests : ServeHTTP(req)

HttpSpec == HttpInit /\ [][HttpNext]_vars

\* ------------------------------------------------------------------- claims
\* C1: for any number of concurrent or sequential GetMemberlistKV calls, NewKV
\* and StartAsync run exactly once, and every call that has returned got the
\* same (non-nil) store instance and the same initialization error.
C1_ExactlyOnceInit ==
  /\ kvCount <= 1
  /\ startCalls <= 1
  /\ \A c \in Callers :
       pc[c] = "done" =>
         /\ kvCount = 1
         /\ startCalls = 1
         /\ retKV[c] = 1
         /\ retErr[c] \in {ErrNil, StartErr(1)}
         /\ \A d \in Callers :
              pc[d] = "done" => retKV[d] = retKV[c] /\ retErr[d] = retErr[c]

\* C1 witness: one caller has returned the store while another, which raced it
\* into the slow path, holds the Once's mutex without having initialized anything.
C1_Witness ==
  \E c, d \in Callers :
    /\ c # d
    /\ pc[c] = "done" /\ retKV[c] # NoKV
    /\ pc[d] = "unlock" /\ localKV[d] = NoKV

\* C2: once StartAsync has returned an error, the recorded error never changes,
\* no further store is constructed or started, and every call that returns from
\* then on returns that error.
C2_InitFailureSticky ==
  [][kvsErr # ErrNil =>
       /\ kvsErr' = kvsErr
       /\ kvCount' = kvCount
       /\ startCalls' = startCalls
       /\ \A c \in Callers :
            (pc[c] # "done" /\ pc'[c] = "done") => retErr'[c] = kvsErr]_vars

\* C2 witness: initialization failed and every caller, the later ones included,
\* has been handed the failure.
C2_Witness ==
  /\ kvsErr = StartErr(1)
  /\ \A c \in Callers : pc[c] = "done" /\ retErr[c] = StartErr(1)

\* C3: running() has returned only if the stop signal was given or a store
\* failure was received from the watcher; it returned nil in the first case and
\* the failure of a failed store in the second.
C3_RunReturnCause ==
  runPc = "returned" =>
    /\ consumed = 0 => (ctxDone /\ runResult = ErrNil)
    /\ consumed # 0 =>
         \E id \in KVIds :
           /\ runResult = FailErr(id)
           /\ kvState[id] = "Failed"
           /\ id \in watched

\* C3 witness: running() returned the store's failure with no stop signal given.
C3_Witness ==
  /\ runPc = "returned"
  /\ runResult = FailErr(1)
  /\ ~ctxDone

\* Position of a lifecycle state along
\* Uninitialized -> Initializing -> Running -> {Stopped, Failed}.
Rank(st) ==
  CASE st = "Uninitialized" -> 0
    [] st = "Initializing" -> 1
    [] st = "Running" -> 2
    [] OTHER -> 3

\* C4 as stated: if the store failed while no stop signal had been issued, then
\* running(), once returned, has returned that store's failure (not nil).
C4_Original ==
  \A id \in failedFirst : runPc = "returned" => runResult = FailErr(id)

\* C4 amended: a store failure pending on the watcher while running() waits
\* leads to running() returning, and returning that failure unless a stop signal
\* was issued before running() received it.
C4_FailureReachesRun ==
  (wch # {} /\ runPc = "select") ~>
    (runPc = "returned" /\ (ctxDone \/ \E id \in KVIds : kvState[id] = "Failed" /\ runResult = FailErr(id)))

\* C4 witness: the store failed before any stop signal, the failure was taken
\* off the watcher's channel and running() returned it.
C4_Witness ==
  /\ 1 \in failedFirst
  /\ kvsKV = 1
  /\ wch = {}
  /\ consumed = 1
  /\ runPc = "returned"
  /\ runResult = FailErr(1)

\* C5: a stopping() call that found the store initialized has, when it returns,
\* asked that store to stop, and the store is Terminated or Failed.
C5_StopWaitsForTerminal ==
  \A s \in Stoppers :
    (stPc[s] = "done" /\ stKV[s] # NoKV) =>
      /\ stKV[s] \in stopAsked
      /\ kvState[stKV[s]] \in Terminal

\* C5 witness: stopping() returned after the running store it stopped terminated.
C5_Witness ==
  \E s \in Stoppers :
    /\ stPc[s] = "done"
    /\ stKV[s] = 1
    /\ stRes[s] = ErrNil
    /\ kvState[1] = "Terminated"
    /\ stopEff = 1

\* C6: stopping() entered while no store has been published returns nil in
\* that very step, constructs and starts nothing, and leaves the Once, kvs.kv
\* and every store untouched.
C6_StopBeforeInitNoop ==
  [][\A s \in Stoppers :
       (stPc[s] = "idle" /\ stPc'[s] # "idle" /\ kvsKV = NoKV) =>
         /\ stPc'[s] = "done"
         /\ stRes'[s] = ErrNil
         /\ kvsKV' = NoKV
         /\ UNCHANGED <<onceVars, storeVars>>]_vars

\* C6 witness: stopping() returned nil although nothing was ever constructed.
C6_Witness ==
  \E s \in Stoppers :
    /\ stPc[s] = "done"
    /\ stRes[s] = ErrNil
    /\ stKV[s] = NoKV
    /\ kvCount = 0
    /\ onceDone = 0

\* C7: the lifecycle state changes only forward along
\* Uninitialized -> Initializing -> Running -> {Stopped, Failed}: a change
\* strictly raises the rank (so no state is re-entered and Stopped and Failed
\* are never left), and Running is entered only from Initializing.
C7_LifecycleForward ==
  [][WrapperState' # WrapperState =>
       /\ Rank(WrapperState) < Rank(WrapperState')
       /\ WrapperState' = "Running" => WrapperState = "Initializing"
       /\ WrapperState' = "Initializing" => WrapperState = "Uninitialized"]_vars

\* C7 witness: the wrapper went all the way to Stopped.
C7_Witness == WrapperState = "Stopped" /\ onceDone = 1 /\ kvState[1] = "Terminated"

\* C8: however many times stopping() is invoked, the store's state is changed
\* by at most one stop request, every invocation that returns does so with nil
\* unless the store failed, and invocations that saw the same store agree.
C8_StopIdempotent ==
  /\ stopEff <= 1
  /\ \A s \in Stoppers :
       stPc[s] = "done" =>
         /\ \/ stRes[s] = ErrNil
            \/ /\ stKV[s] # NoKV
               /\ kvState[stKV[s]] = "Failed"
               /\ stRes[s] = FailErr(stKV[s])
         /\ \A t \in Stoppers :
              (stPc[t] = "done" /\ stKV[t] = stKV[s]) => stRes[t] = stRes[s]

\* C8 witness: stopping() was invoked more than once on the initialized store;
\* every invocation returned nil and exactly one stop request changed the store.
C8_Witness ==
  /\ \A s \in Stoppers : stPc[s] = "done" /\ stRes[s] = ErrNil
  /\ \E s, t \in Stoppers : s # t /\ stKV[s] = 1 /\ stKV[t] = 1
  /\ stopEff = 1

\* C9: at most one failure value is ever offered on the watcher's channel, it
\* is the failure of the watched store, it is received at most once and never
\* duplicated or lost, and running() receives at most one value.
C9_WatcherSingleFire ==
  /\ offered <= 1
  /\ consumed <= 1
  /\ Cardinality(wch) + consumed = offered
  /\ \A id \in KVIds : (id \in watched /\ kvState[id] = "Failed") => offered = 1
  /\ offered = 1 => \E id \in watched : kvState[id] = "Failed"
  /\ consumed = 1 => runPc = "returned"

\* C9 witness: the store's failure was offered once and running() received it.
C9_Witness ==
  /\ offered = 1
  /\ consumed = 1
  /\ wch = {}
  /\ kvState[1] = "Failed"

\* C10: merge commutativity.  Once both replicas have merged the same two
\* descriptors (same key, same codec), one as A then B and the other as B then
\* A, they hold the same value for every key (or both hold none).
C10_MergeCommutes ==
  (\A r \in Replicas : inbox[r] = <<>>) =>
    \A k \in Keys :
      /\ rstore[1][k].value = rstore[2][k].value
      /\ rstore[1][k].codecID = rstore[2][k].codecID

\* C10 witness: both orders were applied, the codec's merge changed the value
\* in at least one of them (the versions differ), and the stored values agree.
C10_Witness ==
  /\ \A r \in Replicas : inbox[r] = <<>>
  /\ \E k \in Keys :
       /\ rstore[1][k] # Absent
       /\ rstore[1][k].value = rstore[2][k].value
       /\ rstore[1][k].version # rstore[2][k].version

\* C11: merge idempotence.  A replica that merged the same incoming descriptor
\* twice in a row holds, for every key, exactly the descriptor (value, version
\* and codec) of a replica that merged it once: the second application changed
\* nothing.
C11_MergeIdempotent ==
  (\A r \in Replicas : inbox[r] = <<>>) => rstore[1] = rstore[2]

\* C11 witness: the descriptor was merged twice into a key that was present,
\* the first application changed the stored value and raised the version, and
\* the twice-merged replica equals the once-merged one.
C11_Witness ==
  /\ \A r \in Replicas : inbox[r] = <<>>
  /\ \E k \in Keys :
       /\ rstore[1][k] = rstore[2][k]
       /\ rstore[1][k].version = MaxVer + 1

\* C12: version monotonicity. Across any interleaving of cas and mergeRemote
\* steps on a store, a key's version never decreases, a present key never
\* becomes absent, and every step that changes a present key's descriptor
\* strictly increases its version.
C12_VersionMonotonic ==
  [][\A k \in Keys :
       /\ rstore'[1][k].version >= rstore[1][k].version
       /\ (rstore'[1][k] = Absent => rstore[1][k] = Absent)
       /\ (rstore[1][k] # Absent /\ rstore'[1][k] # rstore[1][k]
             => rstore'[1][k].version > rstore[1][k].version)]_vars

\* cas and mergeRemote have both mutated the key: a merge bumped the version
\* past every drawn one and a cas committed on top of it.
C12_Witness ==
  /\ \E c \in StoreCallers : casPc[c] = "done"
  /\ remoteLeft = 0
  /\ rstore[1][CasKey].version >= MaxVer + 2

\* C13: when a replica merges a remote update <<k, inc>>: an absent key adopts
\* inc verbatim; a present key of the same codec whose merge reports a change
\* (the maximum codec on a larger incoming value, the minimum codec on a
\* smaller one) stores the merged value at max(local, incoming version) + 1.
\* With the maximum codec, local (x, 5, version 1) merged with remote
\* (x, 8, version 1) gives (8, version 2).
C13_MergeVersionRule ==
  [][/\ \A r \in Replicas :
          (inbox[r] # <<>> /\ inbox'[r] = Tail(inbox[r])) =>
            LET k == inbox[r][1][1]
                inc == inbox[r][1][2]
                old == rstore[r][k]
                new == rstore'[r][k]
                top == IF old.version >= inc.version THEN old.version ELSE inc.version
            IN /\ old = Absent => new = inc
               /\ (old # Absent /\ old.codecID = 1 /\ inc.codecID = 1
                      /\ inc.value > old.value)
                    => new = [value |-> inc.value, version |-> top + 1, codecID |-> 1]
               /\ (old # Absent /\ old.codecID = 2 /\ inc.codecID = 2
                      /\ inc.value < old.value)
                    => new = [value |-> inc.value, version |-> top + 1, codecID |-> 2]
     /\ MergeRemote([k \in Keys |-> [value |-> 5, version |-> 1, codecID |-> 1]],
                    "x", [value |-> 8, version |-> 1, codecID |-> 1])["x"]
          = [value |-> 8, version |-> 2, codecID |-> 1]]_vars

\* Replica 1 has merged its first update into a present key of the maximum
\* codec: the merge reported a change and bumped the version past both.
C13_Witness ==
  /\ Len(inbox[1]) = 1
  /\ rstore[1]["x"] = [value |-> MaxVal, version |-> MaxVer + 1, codecID |-> 1]

C16_RunErrorNeedsInit ==
  runPc = "returned" =>
    /\ runResult # ErrNil =>
         \E id \in 1..kvCount :
           /\ runResult = FailErr(id)
           /\ kvState[id] = "Failed"
           /\ id \in watched
           /\ startCalls >= 1
           /\ kvsErr = ErrNil
    /\ (\A c \in Callers : pc[c] = "idle") => (runResult = ErrNil /\ ctxDone)

\* running() returned the failure of the store that one caller initialized,
\* after GetMemberlistKV had handed that store out without error.
C16_Witness ==
  /\ runPc = "returned"
  /\ runResult = FailErr(1)
  /\ \E c \in Callers : pc[c] = "done" /\ retKV[c] = 1 /\ retErr[c] = ErrNil

\* C17: the store is registered with the Failure Watcher before it is started
\* and published only after StartAsync has returned: every store that has left
\* the New state is watched, every failure has been offered to the watcher, and
\* a non-nil store seen by getKV is watched and has had StartAsync called.
C17_WatchBeforeStartPublishAfter ==
  /\ \A id \in 1..kvCount :
       kvState[id] # "New" => (id \in watched /\ startCalls >= 1)
  /\ Cardinality({id \in 1..kvCount : kvState[id] = "Failed"}) = offered
  /\ getKV # NoKV =>
       /\ getKV \in watched
       /\ startCalls >= 1
       /\ \A c \in Callers : localKV[c] = getKV => pc[c] \notin {"watch", "start"}

\* The store failed after StartAsync and before it was published: the watcher
\* already holds its failure.
C17_Witness ==
  /\ kvState[1] = "Failed"
  /\ getKV = NoKV
  /\ 1 \in wch

\* C18 as stated: once a stopping() call has returned and no GetMemberlistKV
\* call is in flight, no store created by the wrapper is started or running.
C18_NoLiveStoreAfterStop ==
  (/\ \E s \in Stoppers : stPc[s] = "done"
   /\ \A s \in Stoppers : stPc[s] \in {"idle", "done"}
   /\ \A c \in Callers : pc[c] \in {"idle", "done"})
    => \A id \in 1..kvCount : kvState[id] \notin {"Starting", "Running"}

\* C19: WriteError writes exactly one status, chosen by the first matching
\* rule of: cancellation (a MultiError of cancellations, context.Canceled, or
\* a promql storage error wrapping it) -> 499; deadline (a MultiError of
\* deadline errors, context.DeadlineExceeded, or gRPC code DeadlineExceeded)
\* -> 504; QueryError, ErrLimit, ErrParse, ErrPipeline or ErrNoOrgID -> 400;
\* an httpgrpc-carried response -> its code; anything else -> 500.
C19_WriteErrorStatus ==
  wePc = "done" =>
    LET e == weErr
        allElems(P(_)) == e.multi /\ e.elems # <<>> /\ \A i \in 1..Len(e.elems) : P(e.elems[i])
        has(t) == (~e.multi /\ t \in e.is) \/ allElems(LAMBDA x : t \in x.is)
        cancelled == has("Canceled") \/ e.promCanceled
        deadline == \/ has("DeadlineExceeded")
                    \/ allElems(LAMBDA x : "DeadlineExceeded" \in x.is \/ x.rpcDeadline)
                    \/ e.rpc = "DeadlineExceeded"
        bad == \/ e.queryErr
               \/ has("ErrLimit") \/ has("ErrParse") \/ has("ErrPipeline")
               \/ has("ErrNoOrgID")
    IN weOut = << IF cancelled THEN 499
                  ELSE IF deadline THEN 504
                  ELSE IF bad THEN 400
                  ELSE IF e.http # 0 THEN e.http
                  ELSE 500 >>

\* An error that is a cancellation, a deadline and a QueryError at once, and
\* carries an HTTP response, was answered with the single status 499.
C19_Witness ==
  /\ wePc = "done"
  /\ {"Canceled", "DeadlineExceeded"} \subseteq weErr.is
  /\ weErr.queryErr
  /\ weErr.http # 0
  /\ weOut = <<499>>

\* C20: ParseStream chooses the framing from the first byte only: '<' runs the
\* non-transparent parser and an ASCII digit the octet-counting parser, and
\* both end with a nil return; it returns an error, the callback never having
\* been invoked, exactly when the first byte cannot be read or is neither '<'
\* nor a digit.
C20_FramingByFirstByte ==
  LET readable == ~psIn.fails /\ Len(psIn.bytes) >= 1
      lt == readable /\ psIn.bytes[1] = 60
      digit == readable /\ psIn.bytes[1] \in 48..57
  IN /\ psOut.calls > 0 => (lt \/ digit)
     /\ psOut.parser = "nontransparent" => lt
     /\ psOut.parser = "octetcounting" => digit
     /\ psPc = "done" =>
          /\ psOut.ret # "nil" <=> ~(lt \/ digit)
          /\ psOut.ret # "nil" => (psOut.calls = 0 /\ psOut.parser = "none")
          /\ lt => psOut.parser = "nontransparent"
          /\ digit => psOut.parser = "octetcounting"

\* A stream starting with '0' was parsed by the octet-counting parser, which
\* invoked the callback, and ParseStream returned nil.
C20_Witness ==
  /\ psPc = "done"
  /\ Len(psIn.bytes) = MaxLen
  /\ psIn.bytes[1] = 48
  /\ psOut.parser = "octetcounting"
  /\ psOut.calls >= 1
  /\ psOut.ret = "nil"

\* C15: a ServeHTTP request (a step that writes a response or shrinks the
\* message log) never touches the Once, the published store, any KV's
\* lifecycle or the value store; with no store it writes only the fixed text
\* reply; and it changes the message log only when the form parsed and the
\* request carries deleteMessages=true and none of downloadKey, viewKey and
\* viewMsg, in which case the log is cleared and the reply is the redirect.
C15_ServeHTTPReadOnly ==
  [][(resp' # resp \/ (msgLog' # msgLog /\ msgLog' \subseteq msgLog)) =>
       LET r == resp'.req
           clears == /\ r.deleteMessages = "true"
                     /\ r.downloadKey = "none"
                     /\ r.viewKey = "none"
                     /\ r.viewMsg = "none"
       IN /\ UNCHANGED <<wrapperVars, mergeVars>>
          /\ getKV = NoKV =>
               /\ resp'.body = "This instance doesn't use memberlist."
               /\ msgLog' = msgLog
          /\ msgLog' # msgLog => (clears /\ ~r.parseErr /\ msgLog' = {})
          /\ (getKV # NoKV /\ clears /\ ~r.parseErr) =>
               (msgLog' = {} /\ resp'.status = 302)
          /\ ~clears => msgLog' = msgLog]_vars

\* The log of the published store held messages and a deleteMessages=true
\* request has just emptied it and been redirected.
C15_Witness ==
  /\ getKV # NoKV
  /\ msgLog = {}
  /\ resp.req.deleteMessages = "true"
  /\ resp.status = 302
  /\ \E c \in Callers : pc[c] = "done" /\ retKV[c] = getKV

====
